---------------------------- MODULE Spec2Model ----------------------------
(***************************************************************************)
(* Model of noon's animation core (src/animation/mod.rs): the              *)
(* Animation<T> state machine, the AnimationType variant set, the          *)
(* EntityAnimations batch and the commit of a batch into the per-entity    *)
(* Animations<T> queues of the World.                                      *)
(*                                                                         *)
(* Property values (StrokeColor, Position, ...) are modelled as small      *)
(* naturals, f32 timing values as naturals, and the progress fraction as   *)
(* p / ProgressDen with p in 0..ProgressDen.                               *)
(***************************************************************************)
EXTENDS Integers, Sequences, FiniteSets, TLC

\* ------------------------------------------------------------------ bounds
MaxVal == 2
ProgressDen == 2
MaxDuration == 2
MaxStart == 1
MaxUpdates == 3
MaxBatch == 2
MaxQueued == 3

\* ------------------------------------------------------- program constants
DefaultDurationTo == 3
DefaultDuration == 1
DefaultStartTime == 0

\* ------------------------------------------------------------------- data
Types ==
  {"StrokeColor", "FillColor", "Position", "Angle", "Size", "Opacity",
   "PathCompletion"}

Entities == {"e1", "e2"}
NoEntity == "none"

EaseTypes == {"Linear", "Quint"}

Values == 0..MaxVal
Progresses == 0..ProgressDen
DurationArgs == 1..MaxDuration
StartArgs == 0..MaxStart

\* Option<T> and Option<Entity>
None == [some |-> FALSE, val |-> 0]
Some(v) == [some |-> TRUE, val |-> v]
NoTarget == [some |-> FALSE, ent |-> NoEntity]
SomeEntity(e) == [some |-> TRUE, ent |-> e]

\* Value<T>
Absolute(v) == [tag |-> "Absolute", val |-> v, ent |-> NoEntity]
Relative(v) == [tag |-> "Relative", val |-> v, ent |-> NoEntity]
From(e) == [tag |-> "From", val |-> 0, ent |-> e]

\* Interpolate::interp on the modelled values: begin + (end - begin) * progress
interp(begin, end, progress) ==
  IF end >= begin
    THEN begin + (((end - begin) * progress) \div ProgressDen)
    ELSE begin - (((begin - end) * progress) \div ProgressDen)

\* Position's Add
Add(a, b) == a + b

\* --------------------------------------------------------- Animation<T>
to(v) ==
  [begin |-> None, end |-> Absolute(v),
   duration |-> DefaultDurationTo, start_time |-> DefaultStartTime,
   rate_func |-> "Quint",
   init_duration |-> TRUE, init_start_time |-> TRUE, init_rate_func |-> TRUE]

to_target(target) ==
  [begin |-> None, end |-> From(target),
   duration |-> DefaultDuration, start_time |-> DefaultStartTime,
   rate_func |-> "Linear",
   init_duration |-> TRUE, init_start_time |-> TRUE, init_rate_func |-> TRUE]

by(v) ==
  [begin |-> None, end |-> Relative(v),
   duration |-> DefaultDuration, start_time |-> DefaultStartTime,
   rate_func |-> "Linear",
   init_duration |-> TRUE, init_start_time |-> TRUE, init_rate_func |-> TRUE]

with_duration_rebuilds(a, duration) ==
  [a EXCEPT !.begin = None, !.duration = duration, !.init_duration = FALSE]

with_duration(a, duration) ==
  [a EXCEPT !.duration = duration, !.init_duration = FALSE]

with_start_time_first_wins(a, start_time) ==
  IF a.init_start_time
    THEN [a EXCEPT !.start_time = start_time, !.init_start_time = FALSE]
    ELSE a

with_start_time(a, start_time) ==
  [a EXCEPT !.start_time = start_time, !.init_start_time = FALSE]

with_rate_func(a, rate_func) ==
  [a EXCEPT !.rate_func = rate_func, !.init_rate_func = FALSE]

has_target_ignores_variant(a) == SomeEntity(a.end.ent)

has_target(a) ==
  IF a.end.tag = "From" THEN SomeEntity(a.end.ent) ELSE NoTarget

init_from_target_always(a, end) == [a EXCEPT !.end = Absolute(end)]

init_from_target_relative(a, end) ==
  IF a.end.tag \in {"From", "Relative"}
    THEN [a EXCEPT !.end = Absolute(end)] ELSE a

init_from_target(a, end) ==
  IF a.end.tag = "From" THEN [a EXCEPT !.end = Absolute(end)] ELSE a

\* update returns the animation and the property after the call
update_interp_first(a, property, progress) ==
  IF a.end.tag = "Absolute"
    THEN [anim |-> [a EXCEPT !.begin = Some(property)],
          property |-> IF a.begin.some
                         THEN interp(a.begin.val, a.end.val, progress)
                         ELSE interp(property, a.end.val, progress)]
    ELSE [anim |-> a, property |-> property]

update_arms_unresolved(a, property, progress) ==
  IF a.begin.some /\ a.end.tag = "Absolute"
    THEN [anim |-> a,
          property |-> interp(a.begin.val, a.end.val, progress)]
    ELSE IF ~a.begin.some
      THEN [anim |-> [a EXCEPT !.begin = Some(property)],
            property |-> property]
      ELSE [anim |-> a, property |-> property]

update_stops_at_target(a, property, progress) ==
  IF a.begin.some /\ a.end.tag = "Absolute"
    THEN [anim |-> a,
          property |-> IF property = a.end.val
                         THEN property
                         ELSE interp(a.begin.val, a.end.val, progress)]
    ELSE IF ~a.begin.some /\ a.end.tag = "Absolute"
      THEN [anim |-> [a EXCEPT !.begin = Some(property)],
            property |-> property]
      ELSE [anim |-> a, property |-> property]

update_handles_relative(a, property, progress) ==
  IF a.begin.some /\ a.end.tag = "Absolute"
    THEN [anim |-> a,
          property |-> interp(a.begin.val, a.end.val, progress)]
    ELSE IF a.begin.some /\ a.end.tag = "Relative"
      THEN [anim |-> [a EXCEPT !.end = Absolute(Add(a.begin.val, a.end.val))],
            property |-> property]
      ELSE IF ~a.begin.some /\ a.end.tag # "From"
        THEN [anim |-> [a EXCEPT !.begin = Some(property)],
              property |-> property]
        ELSE [anim |-> a, property |-> property]

update_rearms(a, property, progress) ==
  IF a.end.tag = "Absolute"
    THEN [anim |-> [a EXCEPT !.begin = Some(property)],
          property |-> IF a.begin.some
                         THEN interp(a.begin.val, a.end.val, progress)
                         ELSE property]
    ELSE [anim |-> a, property |-> property]

update_arms_before_resolution(a, property, progress) ==
  IF a.begin.some /\ a.end.tag = "Absolute"
    THEN [anim |-> a,
          property |-> interp(a.begin.val, a.end.val, progress)]
    ELSE IF ~a.begin.some /\ a.end.tag \in {"Absolute", "From"}
      THEN [anim |-> [a EXCEPT !.begin = Some(property)],
            property |-> property]
      ELSE [anim |-> a, property |-> property]

update(a, property, progress) ==
  IF a.begin.some /\ a.end.tag = "Absolute"
    THEN [anim |-> a,
          property |-> interp(a.begin.val, a.end.val, progress)]
    ELSE IF ~a.begin.some /\ a.end.tag = "Absolute"
      THEN [anim |-> [a EXCEPT !.begin = Some(property)],
            property |-> property]
      ELSE [anim |-> a, property |-> property]

update_position(a, property, progress) ==
  IF a.begin.some /\ a.end.tag = "Absolute"
    THEN [anim |-> a,
          property |-> interp(a.begin.val, a.end.val, progress)]
    ELSE IF a.begin.some /\ a.end.tag = "Relative"
      THEN [anim |-> [a EXCEPT !.end = Absolute(Add(a.begin.val, a.end.val))],
            property |-> property]
      ELSE IF ~a.begin.some /\ a.end.tag = "Absolute"
        THEN [anim |-> [a EXCEPT !.begin = Some(property)],
              property |-> property]
        ELSE [anim |-> a, property |-> property]

set_properties_unguarded(a, start_time, duration, rate_func) ==
  [a EXCEPT !.start_time = start_time, !.duration = duration,
            !.rate_func = rate_func]

set_properties_locks(a, start_time, duration, rate_func) ==
  [a EXCEPT
     !.start_time = IF a.init_start_time THEN start_time ELSE @,
     !.duration = IF a.init_duration THEN duration ELSE @,
     !.rate_func = IF a.init_rate_func THEN rate_func ELSE @,
     !.init_start_time = FALSE, !.init_duration = FALSE,
     !.init_rate_func = FALSE]

\* the free function set_properties::<T>
set_properties(a, start_time, duration, rate_func) ==
  LET a1 == IF a.init_start_time
              THEN [a EXCEPT !.start_time = start_time] ELSE a
      a2 == IF a1.init_duration
              THEN [a1 EXCEPT !.duration = duration] ELSE a1
  IN IF a2.init_rate_func THEN [a2 EXCEPT !.rate_func = rate_func] ELSE a2


\* ------------------------------------------------------------------ state
VARIABLES
  anim,          \* the Animation<T> under drive
  ptype,         \* its property type T
  property,      \* the live property value update writes through
  target_value,  \* the live value of the entity a From end refers to
  built,         \* history: the constructor call that built anim
  nupd,          \* history: update / update_position calls so far (saturating)
  since,         \* history: update calls since the first init_from_target call
  peak,          \* history: a call after the first update had progress 1.0
  resolved,      \* history: the value the first init_from_target call supplied
  set_by,        \* history: the value of the last fluent setter call per field
  last,          \* history: the last call made and its arguments
  batch,         \* an EntityAnimations value
  panicked,      \* a call has panicked
  world,         \* World: the Animations<T> component of each (entity, T)
  log            \* history: every committed animation, in commit order

vars ==
  <<anim, ptype, property, target_value, built, nupd, since, peak, resolved,
    set_by, last, batch, panicked, world, log>>

animVars ==
  <<anim, ptype, property, target_value, built, nupd, since, peak, resolved,
    set_by>>

Call(op, value, start_time, duration, rate_func, target) ==
  [op |-> op, value |-> value, start_time |-> start_time,
   duration |-> duration, rate_func |-> rate_func, target |-> target]

NoCall == Call("new", 0, 0, 0, "Linear", NoTarget)

NoQueue == [present |-> FALSE, anims |-> <<>>]

EmptyWorld == [e \in Entities |-> [t \in Types |-> NoQueue]]

Built(ctor, value, ent) == [ctor |-> ctor, value |-> value, ent |-> ent]

Sat(n) == IF n < MaxUpdates THEN n + 1 ELSE n

\* ------------------------------------------- Spec: one animation's life
InitAnimation ==
  /\ ptype \in Types
  /\ property \in Values
  /\ target_value \in Values
  /\ \/ \E v \in Values : anim = to(v) /\ built = Built("to", v, NoEntity)
     \/ \E v \in Values : anim = by(v) /\ built = Built("by", v, NoEntity)
     \/ \E e \in Entities :
          anim = to_target(e) /\ built = Built("to_target", 0, e)
  /\ nupd = 0
  /\ peak = FALSE
  /\ since = 0
  /\ resolved = None
  /\ set_by = [duration |-> None, start_time |-> None,
               rate_func |-> [some |-> FALSE, val |-> "Linear"]]
  /\ last = NoCall
  /\ batch = [entity |-> "e1", animations |-> <<>>]
  /\ panicked = FALSE
  /\ world = EmptyWorld
  /\ log = <<>>

WithDuration(d) ==
  /\ anim' = with_duration(anim, d)
  /\ set_by' = [set_by EXCEPT !.duration = Some(d)]
  /\ last' = Call("with_duration", 0, 0, d, "Linear", NoTarget)
  /\ UNCHANGED <<ptype, property, target_value, built, peak, nupd, since, resolved,
                 batch, panicked, world, log>>

WithStartTime(s) ==
  /\ anim' = with_start_time(anim, s)
  /\ set_by' = [set_by EXCEPT !.start_time = Some(s)]
  /\ last' = Call("with_start_time", 0, s, 0, "Linear", NoTarget)
  /\ UNCHANGED <<ptype, property, target_value, built, peak, nupd, since, resolved,
                 batch, panicked, world, log>>

WithRateFunc(r) ==
  /\ anim' = with_rate_func(anim, r)
  /\ set_by' = [set_by EXCEPT !.rate_func = [some |-> TRUE, val |-> r]]
  /\ last' = Call("with_rate_func", 0, 0, 0, r, NoTarget)
  /\ UNCHANGED <<ptype, property, target_value, built, peak, nupd, since, resolved,
                 batch, panicked, world, log>>

\* history: the duration argument of the set_properties call made just
\* before this one, 0 when the call before was another one
PrecedingBulkDuration ==
  IF last.op = "set_properties" THEN last.duration ELSE 0

SetProperties(s, d, r) ==
  /\ anim' = set_properties(anim, s, d, r)
  /\ last' = Call("set_properties", PrecedingBulkDuration, s, d, r, NoTarget)
  /\ UNCHANGED <<ptype, property, target_value, built, peak, nupd, since, resolved,
                 set_by, batch, panicked, world, log>>

HasTarget ==
  /\ last' = Call("has_target", 0, 0, 0, "Linear", has_target(anim))
  /\ UNCHANGED <<animVars, batch, panicked, world, log>>

InitFromTarget ==
  /\ anim' = init_from_target(anim, target_value)
  /\ resolved' = IF resolved.some THEN resolved ELSE Some(target_value)
  /\ since' = IF resolved.some THEN since ELSE 0
  /\ last' = Call("init_from_target", 0, 0, 0, "Linear", NoTarget)
  /\ UNCHANGED <<ptype, property, target_value, built, peak, nupd, set_by, batch,
                 panicked, world, log>>

Update(p) ==
  /\ LET r == update(anim, property, p)
     IN anim' = r.anim /\ property' = r.property
  /\ nupd' = Sat(nupd)
  /\ peak' = (peak \/ (nupd >= 1 /\ p = ProgressDen))
  /\ since' = IF resolved.some THEN Sat(since) ELSE since
  /\ last' = Call("update", p, 0, 0, "Linear", NoTarget)
  /\ UNCHANGED <<ptype, target_value, built, resolved, set_by, batch,
                 panicked, world, log>>

UpdatePosition(p) ==
  /\ ptype = "Position"
  /\ LET r == update_position(anim, property, p)
     IN anim' = r.anim /\ property' = r.property
  /\ nupd' = Sat(nupd)
  /\ peak' = (peak \/ (nupd >= 1 /\ p = ProgressDen))
  /\ since' = IF resolved.some THEN Sat(since) ELSE since
  /\ last' = Call("update_position", p, 0, 0, "Linear", NoTarget)
  /\ UNCHANGED <<ptype, target_value, built, resolved, set_by, batch,
                 panicked, world, log>>

\* another writer of the scene changes the property between two calls
PropertyWrite(v) ==
  /\ property' = v
  /\ last' = Call("property_write", 0, 0, 0, "Linear", NoTarget)
  /\ UNCHANGED <<anim, ptype, target_value, built, peak, nupd, since, resolved,
                 set_by, batch, panicked, world, log>>

\* the entity a From end refers to changes its own property
TargetWrite(v) ==
  /\ target_value' = v
  /\ last' = Call("target_write", 0, 0, 0, "Linear", NoTarget)
  /\ UNCHANGED <<anim, ptype, property, built, peak, nupd, since, resolved, set_by,
                 batch, panicked, world, log>>

Next ==
  \/ HasTarget
  \/ InitFromTarget
  \/ \E p \in Progresses : Update(p)
  \/ \E p \in Progresses : UpdatePosition(p)
  \/ \E v \in Values : PropertyWrite(v)
  \/ \E v \in Values : TargetWrite(v)

Spec == InitAnimation /\ [][Next]_vars


\* ------------------------------------------------------ claims under Spec
UpdateOps == {"update", "update_position"}

\* C2: for an animation built by to(x), the first update call (any progress)
\* leaves the property as it is and sets begin to the property's value; the
\* second update call, made with progress 1.0, sets the property to x.
C2_ToArmsThenReachesTarget ==
  [][(built.ctor = "to" /\ last'.op \in UpdateOps) =>
       /\ nupd = 0 => (property' = property /\ anim'.begin = Some(property))
       /\ (nupd = 1 /\ last'.value = ProgressDen) =>
            property' = built.value]_vars

C2_Witness ==
  /\ built.ctor = "to"
  /\ nupd = 2
  /\ last.op = "update"
  /\ last.value = ProgressDen
  /\ anim.begin.some
  /\ anim.begin.val # built.value
  /\ property = built.value

\* C3: for an Animation<Position> built by by(delta) and driven with
\* update_position: the first call arms begin with the property's value v,
\* the second converts end to Absolute(v + delta), and a later call sets the
\* property to v + delta at progress 1.0 and to v at progress 0.0.
C3_ByPositionArmsConvertsMoves ==
  [][(built.ctor = "by" /\ ptype = "Position"
        /\ last'.op = "update_position") =>
       /\ nupd = 0 => anim'.begin = Some(property)
       /\ (nupd = 1 /\ anim.begin.some) =>
            anim'.end = Absolute(anim.begin.val + built.value)
       /\ (nupd >= 2 /\ anim.begin.some /\ last'.value = ProgressDen) =>
            property' = anim.begin.val + built.value
       /\ (nupd >= 2 /\ anim.begin.some /\ last'.value = 0) =>
            property' = anim.begin.val]_vars

\* C4: for an animation built by to_target(B), has_target() returns Some(B)
\* until it is resolved; after init_from_target(p) and then two update calls,
\* the second with progress 1.0, the property equals p, whatever B's own
\* value has become since.
C4_ToTargetEndToEnd ==
  [][built.ctor = "to_target" =>
       /\ (last'.op = "has_target" /\ ~resolved.some) =>
            last'.target = SomeEntity(built.ent)
       /\ (last'.op \in UpdateOps /\ resolved.some /\ since = 1 /\ nupd = 1
             /\ last'.value = ProgressDen) =>
            property' = resolved.val]_vars

C4_Witness ==
  /\ built.ctor = "to_target"
  /\ resolved.some
  /\ since = 2
  /\ nupd = 2
  /\ last.op = "update"
  /\ last.value = ProgressDen
  /\ anim.begin.some
  /\ anim.begin.val # resolved.val
  /\ target_value # resolved.val
  /\ property = resolved.val

\* C5: init_from_target on an animation whose end is not From (Absolute or
\* Relative, an already resolved animation included) changes no field of the
\* animation, so the value of the first resolution stays the end.
C5_InitFromTargetNoOp ==
  [][/\ (last'.op = "init_from_target" /\ anim.end.tag # "From") =>
          anim' = anim
     /\ (built.ctor = "to_target" /\ resolved'.some) =>
          anim'.end = Absolute(resolved'.val)]_vars

C5_Witness ==
  /\ built.ctor = "to_target"
  /\ last.op = "init_from_target"
  /\ resolved.some
  /\ target_value # resolved.val
  /\ anim.end = Absolute(resolved.val)

\* C6: while end is From(entity), every update and update_position call,
\* with any progress, leaves the property and the whole animation unchanged
\* (begin stays unset) and does not panic.
C6_UnresolvedUpdateNoOp ==
  [][(anim.end.tag = "From" /\ last'.op \in UpdateOps) =>
       /\ anim' = anim
       /\ ~anim'.begin.some
       /\ property' = property
       /\ ~panicked']_vars

C6_Witness ==
  /\ built.ctor = "to_target"
  /\ anim.end.tag = "From"
  /\ ~anim.begin.some
  /\ nupd = 2
  /\ last.op = "update_position"
  /\ last.value = ProgressDen


\* C12: has_target() returns Some(B) for an animation built by to_target(B)
\* until the first init_from_target call and None after it; it returns None
\* at every point in the life of an animation built by to or by.
C12_HasTargetIffFrom ==
  [][last'.op = "has_target" =>
       /\ last'.target =
            IF built.ctor = "to_target" /\ ~resolved.some
              THEN SomeEntity(built.ent)
              ELSE NoTarget
       /\ last'.target = IF anim.end.tag = "From"
                           THEN SomeEntity(anim.end.ent)
                           ELSE NoTarget]_vars

C12_Witness ==
  /\ built.ctor = "to_target"
  /\ resolved.some
  /\ nupd >= 1
  /\ last.op = "has_target"
  /\ last.target = NoTarget

\* C13: once begin is set and end is Absolute(target), every update call
\* with progress p sets the property to interp(begin, target, p) and leaves
\* the animation as it is, also after a call with progress 1.0 and when p is
\* lower than an earlier progress.
C13_NoTerminalState ==
  [][(anim.begin.some /\ anim.end.tag = "Absolute"
        /\ last'.op \in UpdateOps) =>
       /\ property' = interp(anim.begin.val, anim.end.val, last'.value)
       /\ anim' = anim]_vars

C13_Witness ==
  /\ built.ctor = "to"
  /\ peak
  /\ nupd = 3
  /\ last.op = "update"
  /\ last.value = 0
  /\ anim.begin.some
  /\ anim.begin.val # built.value
  /\ property = anim.begin.val

\* C14: for an animation built by by(delta) on a property type other than
\* Position, no update call converts the Relative end or changes the
\* property.
C14_RelativeInertOffPosition ==
  [][(built.ctor = "by" /\ ptype # "Position") =>
       /\ anim'.end = Relative(built.value)
       /\ last'.op \in UpdateOps => property' = property]_vars

C14_Witness ==
  /\ built.ctor = "by"
  /\ ptype = "Opacity"
  /\ nupd = 3
  /\ last.op = "update"
  /\ last.value = ProgressDen
  /\ anim.end = Relative(built.value)
  /\ built.value # 0

\* C16: in every reachable state begin is set only if end is Absolute; the
\* state (begin set, end Relative), the only one in which update_position
\* converts a Relative end, is never reached.
C16_BeginSetOnlyIfAbsolute ==
  anim.begin.some => anim.end.tag = "Absolute"

C16_Witness ==
  /\ built.ctor = "by"
  /\ ptype = "Position"
  /\ nupd = 3
  /\ last.op = "update_position"
  /\ ~anim.begin.some
  /\ anim.end.tag = "Relative"

\* C17: once begin is set no later call changes it, even when another writer
\* has changed the property in between, and once end is Absolute(t) no later
\* call changes t; the fluent setters and set_properties applied to the
\* animation keep both as well.
C17_BeginAndTargetCapturedOnce ==
  /\ [][/\ anim.begin.some => anim'.begin = anim.begin
        /\ anim.end.tag = "Absolute" => anim'.end = anim.end]_vars
  /\ [](/\ \A d \in DurationArgs :
             LET b == with_duration(anim, d)
             IN b.begin = anim.begin /\ b.end = anim.end
        /\ \A s \in StartArgs :
             LET b == with_start_time(anim, s)
             IN b.begin = anim.begin /\ b.end = anim.end
        /\ \A r \in EaseTypes :
             LET b == with_rate_func(anim, r)
             IN b.begin = anim.begin /\ b.end = anim.end
        /\ \A s \in StartArgs, d \in DurationArgs, r \in EaseTypes :
             LET b == set_properties(anim, s, d, r)
             IN b.begin = anim.begin /\ b.end = anim.end)

C17_Witness ==
  /\ built.ctor = "to"
  /\ nupd = 3
  /\ last.op = "update"
  /\ anim.begin.some
  /\ anim.end = Absolute(built.value)
  /\ property # anim.begin.val
  /\ resolved.some
  /\ resolved.val # built.value

\* C19: when update has been called before the first init_from_target(p)
\* call on an animation built by to_target, the animation is still unarmed
\* at that call; the first update after it arms begin with the property's
\* value at that moment, and the next update with progress 1.0 sets the
\* property to p.
C19_LateResolutionRecovers ==
  [][built.ctor = "to_target" =>
       /\ (last'.op = "init_from_target" /\ ~resolved.some /\ nupd >= 1) =>
            (~anim'.begin.some /\ anim'.end = Absolute(target_value))
       /\ (last'.op \in UpdateOps /\ resolved.some /\ since = 0
             /\ nupd >= 1) =>
            (anim'.begin = Some(property) /\ property' = property)
       /\ (last'.op \in UpdateOps /\ resolved.some /\ since = 1
             /\ nupd >= 2 /\ last'.value = ProgressDen) =>
            property' = resolved.val]_vars

C19_Witness ==
  /\ built.ctor = "to_target"
  /\ resolved.some
  /\ since = 2
  /\ nupd = 3
  /\ last.op = "update"
  /\ last.value = ProgressDen
  /\ anim.begin.some
  /\ anim.begin.val # resolved.val
  /\ property = resolved.val

\* --------------------------- TimingSpec: fluent setters and bulk timing
InitTiming ==
  /\ ptype \in Types
  /\ property = 0
  /\ target_value = 0
  /\ \/ \E v \in Values : anim = to(v) /\ built = Built("to", v, NoEntity)
     \/ \E v \in Values : anim = by(v) /\ built = Built("by", v, NoEntity)
     \/ \E e \in Entities :
          anim = to_target(e) /\ built = Built("to_target", 0, e)
  /\ nupd = 0
  /\ peak = FALSE
  /\ since = 0
  /\ resolved = None
  /\ set_by = [duration |-> None, start_time |-> None,
               rate_func |-> [some |-> FALSE, val |-> "Linear"]]
  /\ last = NoCall
  /\ batch = [entity |-> "e1", animations |-> <<>>]
  /\ panicked = FALSE
  /\ world = EmptyWorld
  /\ log = <<>>

TimingNext ==
  \/ \E d \in DurationArgs : WithDuration(d)
  \/ \E s \in StartArgs : WithStartTime(s)
  \/ \E r \in EaseTypes : WithRateFunc(r)
  \/ \E s \in StartArgs, d \in DurationArgs, r \in EaseTypes :
       SetProperties(s, d, r)

TimingSpec == InitTiming /\ [][TimingNext]_vars

\* C1: once with_duration / with_start_time / with_rate_func has been called,
\* the field holds the value of the (last) setter call in every later state,
\* whatever bulk set_properties calls are made before or after it.
C1_SetterValueSurvivesBulk ==
  /\ set_by.duration.some => anim.duration = set_by.duration.val
  /\ set_by.start_time.some => anim.start_time = set_by.start_time.val
  /\ set_by.rate_func.some => anim.rate_func = set_by.rate_func.val

C1_Witness ==
  /\ last.op = "set_properties"
  /\ set_by.duration.some
  /\ last.duration # set_by.duration.val
  /\ anim.duration = set_by.duration.val
  /\ set_by.rate_func.some
  /\ last.rate_func # set_by.rate_func.val
  /\ anim.rate_func = set_by.rate_func.val
  /\ ~set_by.start_time.some
  /\ anim.start_time = last.start_time
  /\ anim.start_time # DefaultStartTime


\* C11: the fluent setters commute and are idempotent: two setters of
\* different fields give the same animation in either order, a setter applied
\* twice with one value gives what it gives applied once, and after several
\* calls of one setter the field holds the value of the last call and its
\* flag is false.
C11_SettersCommuteLastWins ==
  /\ \A s \in StartArgs, d \in DurationArgs, r \in EaseTypes :
       /\ with_duration(with_start_time(anim, s), d)
            = with_start_time(with_duration(anim, d), s)
       /\ with_duration(with_rate_func(anim, r), d)
            = with_rate_func(with_duration(anim, d), r)
       /\ with_start_time(with_rate_func(anim, r), s)
            = with_rate_func(with_start_time(anim, s), r)
       /\ with_duration(with_duration(anim, d), d) = with_duration(anim, d)
       /\ with_start_time(with_start_time(anim, s), s)
            = with_start_time(anim, s)
       /\ with_rate_func(with_rate_func(anim, r), r) = with_rate_func(anim, r)
  /\ set_by.duration.some =>
       (anim.duration = set_by.duration.val /\ ~anim.init_duration)
  /\ set_by.start_time.some =>
       (anim.start_time = set_by.start_time.val /\ ~anim.init_start_time)
  /\ set_by.rate_func.some =>
       (anim.rate_func = set_by.rate_func.val /\ ~anim.init_rate_func)

C11_Witness ==
  /\ last.op = "with_start_time"
  /\ set_by.start_time.some
  /\ set_by.duration.some
  /\ set_by.rate_func.some
  /\ anim.start_time = last.start_time
  /\ anim.start_time # DefaultStartTime
  /\ ~anim.init_start_time /\ ~anim.init_duration /\ ~anim.init_rate_func

\* C18: a bulk set_properties call changes none of the three flags and
\* writes every field no setter has set, so of two successive bulk calls the
\* second one's values stand; a fluent setter called after a bulk call still
\* overrides the value the bulk call wrote.
C18_BulkDoesNotLock ==
  [][/\ last'.op = "set_properties" =>
          /\ anim'.init_start_time = anim.init_start_time
          /\ anim'.init_duration = anim.init_duration
          /\ anim'.init_rate_func = anim.init_rate_func
          /\ ~set_by.start_time.some =>
               (anim'.start_time = last'.start_time /\ anim'.init_start_time)
          /\ ~set_by.duration.some =>
               (anim'.duration = last'.duration /\ anim'.init_duration)
          /\ ~set_by.rate_func.some =>
               (anim'.rate_func = last'.rate_func /\ anim'.init_rate_func)
     /\ last'.op = "with_start_time" => anim'.start_time = last'.start_time
     /\ last'.op = "with_duration" => anim'.duration = last'.duration
     /\ last'.op = "with_rate_func" => anim'.rate_func = last'.rate_func]_vars

C18_Witness ==
  /\ last.op = "set_properties"
  /\ last.value # 0
  /\ last.value # last.duration
  /\ ~set_by.duration.some
  /\ anim.duration = last.duration
  /\ anim.init_duration

\* ---------------------------------- AnimationType and EntityAnimations
Variant(kind, a) == [kind |-> kind, anim |-> a]

\* one arm per variant of AnimationType, as in the match of
\* EntityAnimations::set_properties
set_properties_variant_skips_opacity(v, start_time, duration, rate_func) ==
  IF v.kind = "Opacity"
    THEN v
    ELSE Variant(v.kind,
                 set_properties(v.anim, start_time, duration, rate_func))

set_properties_variant(v, start_time, duration, rate_func) ==
  CASE v.kind = "StrokeColor" ->
         Variant("StrokeColor",
                 set_properties(v.anim, start_time, duration, rate_func))
    [] v.kind = "FillColor" ->
         Variant("FillColor",
                 set_properties(v.anim, start_time, duration, rate_func))
    [] v.kind = "Position" ->
         Variant("Position",
                 set_properties(v.anim, start_time, duration, rate_func))
    [] v.kind = "Angle" ->
         Variant("Angle",
                 set_properties(v.anim, start_time, duration, rate_func))
    [] v.kind = "Size" ->
         Variant("Size",
                 set_properties(v.anim, start_time, duration, rate_func))
    [] v.kind = "Opacity" ->
         Variant("Opacity",
                 set_properties(v.anim, start_time, duration, rate_func))
    [] v.kind = "PathCompletion" ->
         Variant("PathCompletion",
                 set_properties(v.anim, start_time, duration, rate_func))

EntityAnimations_set_properties(b, start_time, duration, rate_func) ==
  [b EXCEPT !.animations =
     [i \in DOMAIN b.animations |->
        set_properties_variant(b.animations[i], start_time, duration,
                               rate_func)]]

\* the match of EntityAnimations::start_time on one variant
start_time_variant(v) ==
  CASE v.kind = "StrokeColor" -> v.anim.start_time
    [] v.kind = "FillColor" -> v.anim.start_time
    [] v.kind = "Position" -> v.anim.start_time
    [] v.kind = "Angle" -> v.anim.start_time
    [] v.kind = "Size" -> v.anim.start_time
    [] v.kind = "Opacity" -> v.anim.start_time
    [] v.kind = "PathCompletion" -> v.anim.start_time

Returned(v) == [panic |-> FALSE, value |-> v]
Panic == [panic |-> TRUE, value |-> 0]

RECURSIVE MinStart(_)
MinStart(anims) ==
  IF Len(anims) = 1
    THEN start_time_variant(anims[1])
    ELSE LET m == MinStart(Tail(anims))
             h == start_time_variant(anims[1])
         IN IF h <= m THEN h ELSE m

EntityAnimations_start_time_min(b) ==
  IF Len(b.animations) = 0
    THEN Panic
    ELSE Returned(MinStart(b.animations))

EntityAnimations_start_time_or_zero(b) ==
  IF Len(b.animations) = 0
    THEN Returned(0)
    ELSE Returned(start_time_variant(b.animations[1]))

\* self.animations.get(0).unwrap(): panics on an empty sequence
EntityAnimations_start_time(b) ==
  IF Len(b.animations) = 0
    THEN Panic
    ELSE Returned(start_time_variant(b.animations[1]))

\* ------------------------------ BatchSpec: one batch and its timing calls
\* the animations a batch is authored from: one per constructor, two as
\* built (their defaults differ) and one with its start time set explicitly
AuthoredAnimations ==
  {to(0), to_target("e2"), with_start_time(by(0), MaxStart)}

AuthoredVariants ==
  {Variant(k, a) : k \in Types, a \in AuthoredAnimations}

SeqsUpTo(S, n) == UNION {[1..m -> S] : m \in 0..n}

InitBatch ==
  /\ batch \in [entity : {"e1"},
                animations : SeqsUpTo(AuthoredVariants, MaxBatch)]
  /\ ptype = "Position"
  /\ property = 0
  /\ target_value = 0
  /\ anim = to(0)
  /\ built = Built("to", 0, NoEntity)
  /\ nupd = 0
  /\ peak = FALSE
  /\ since = 0
  /\ resolved = None
  /\ set_by = [duration |-> None, start_time |-> None,
               rate_func |-> [some |-> FALSE, val |-> "Linear"]]
  /\ last = NoCall
  /\ panicked = FALSE
  /\ world = EmptyWorld
  /\ log = <<>>

BatchSetProperties(s, d, r) ==
  /\ ~panicked
  /\ batch' = EntityAnimations_set_properties(batch, s, d, r)
  /\ last' = Call("set_properties", 0, s, d, r, NoTarget)
  /\ UNCHANGED <<animVars, panicked, world, log>>

BatchStartTime ==
  /\ ~panicked
  /\ LET r == EntityAnimations_start_time(batch)
     IN /\ panicked' = r.panic
        /\ last' = Call("start_time", r.value, 0, 0, "Linear", NoTarget)
  /\ UNCHANGED <<animVars, batch, world, log>>

BatchNext ==
  \/ \E s \in StartArgs, d \in DurationArgs, r \in EaseTypes :
       BatchSetProperties(s, d, r)
  \/ BatchStartTime

BatchSpec == InitBatch /\ [][BatchNext]_vars


\* C7: EntityAnimations::set_properties(s, d, r) on a batch in which every
\* animation, of whatever property type, still has its three flags defaulted
\* leaves every animation with start_time s, duration d and rate_func r.
AllDefaulted(b) ==
  \A i \in DOMAIN b.animations :
    LET a == b.animations[i].anim
    IN a.init_start_time /\ a.init_duration /\ a.init_rate_func

C7_BulkSetsAllDefaulted ==
  [][(last'.op = "set_properties" /\ AllDefaulted(batch)) =>
       /\ Len(batch'.animations) = Len(batch.animations)
       /\ \A i \in DOMAIN batch'.animations :
            LET a == batch'.animations[i].anim
            IN /\ a.start_time = last'.start_time
               /\ a.duration = last'.duration
               /\ a.rate_func = last'.rate_func]_vars

C7_Witness ==
  /\ last.op = "set_properties"
  /\ Len(batch.animations) >= 2
  /\ AllDefaulted(batch)
  /\ batch.animations[1].kind # batch.animations[2].kind
  /\ last.start_time # DefaultStartTime
  /\ last.duration \notin {DefaultDuration, DefaultDurationTo}
  /\ \A i \in DOMAIN batch.animations :
       LET a == batch.animations[i].anim
       IN /\ a.start_time = last.start_time
          /\ a.duration = last.duration
          /\ a.rate_func = last.rate_func

\* C8: EntityAnimations::start_time() on a non-empty batch returns the
\* start_time of the animation at index 0, whatever its property type and
\* whatever the start times of the later animations, and leaves the batch as
\* it is.
C8_StartTimeIsFirst ==
  [][(last'.op = "start_time" /\ Len(batch.animations) > 0) =>
       /\ ~panicked'
       /\ last'.value = batch.animations[1].anim.start_time
       /\ batch' = batch]_vars

C8_Witness ==
  /\ last.op = "start_time"
  /\ ~panicked
  /\ Len(batch.animations) >= 2
  /\ batch.animations[1].kind # batch.animations[2].kind
  /\ batch.animations[2].anim.start_time < batch.animations[1].anim.start_time
  /\ last.value = batch.animations[1].anim.start_time

\* C9: EntityAnimations::start_time() on a batch whose animation sequence is
\* empty panics; it returns no value.
C9_StartTimeEmptyPanics ==
  [][(last'.op = "start_time" /\ Len(batch.animations) = 0) =>
       panicked']_vars

C9_Witness ==
  /\ last.op = "start_time"
  /\ Len(batch.animations) = 0
  /\ panicked

\* ------------------------------------ CommitSpec: batches into the World
insert_animation_replaces(animation, w, id, kind) ==
  [w EXCEPT ![id][kind] = [present |-> TRUE, anims |-> <<animation>>]]

\* insert_animation::<C>: push onto the entity's Animations<C>, or insert a
\* new component holding the animation
insert_animation(animation, w, id, kind) ==
  IF w[id][kind].present
    THEN [w EXCEPT ![id][kind].anims = Append(@, animation)]
    ELSE [w EXCEPT ![id][kind] = [present |-> TRUE, anims |-> <<animation>>]]

\* one arm per variant of AnimationType, as in the match of
\* EntityAnimations::insert_animation
insert_variant(v, w, id) ==
  CASE v.kind = "StrokeColor" -> insert_animation(v.anim, w, id, "StrokeColor")
    [] v.kind = "FillColor" -> insert_animation(v.anim, w, id, "FillColor")
    [] v.kind = "Position" -> insert_animation(v.anim, w, id, "Position")
    [] v.kind = "Angle" -> insert_animation(v.anim, w, id, "Angle")
    [] v.kind = "Size" -> insert_animation(v.anim, w, id, "Size")
    [] v.kind = "Opacity" -> insert_animation(v.anim, w, id, "Opacity")
    [] v.kind = "PathCompletion" ->
         insert_animation(v.anim, w, id, "PathCompletion")

RECURSIVE InsertEach(_, _, _)
InsertEach(anims, w, id) ==
  IF anims = <<>>
    THEN w
    ELSE InsertEach(Tail(anims), insert_variant(Head(anims), w, id), id)

EntityAnimations_insert_animation(b, w) ==
  InsertEach(b.animations, w, b.entity)

\* the animations committed batches are authored from
CommitAnimations == {to(0), by(0)}

CommitVariants == {Variant(k, a) : k \in Types, a \in CommitAnimations}

InitCommit ==
  /\ world = EmptyWorld
  /\ log = <<>>
  /\ batch = [entity |-> "e1", animations |-> <<>>]
  /\ ptype = "Position"
  /\ property = 0
  /\ target_value = 0
  /\ anim = to(0)
  /\ built = Built("to", 0, NoEntity)
  /\ nupd = 0
  /\ peak = FALSE
  /\ since = 0
  /\ resolved = None
  /\ set_by = [duration |-> None, start_time |-> None,
               rate_func |-> [some |-> FALSE, val |-> "Linear"]]
  /\ last = NoCall
  /\ panicked = FALSE

Smaller(a, b) == IF a <= b THEN a ELSE b

\* EntityAnimations::insert_animation(self, world) on a batch b
Commit(b) ==
  /\ world' = EntityAnimations_insert_animation(b, world)
  /\ log' = log \o [i \in DOMAIN b.animations |->
                      [entity |-> b.entity, kind |-> b.animations[i].kind,
                       anim |-> b.animations[i].anim]]
  /\ last' = Call("insert_animation", Len(b.animations), 0, 0, "Linear",
                  NoTarget)
  /\ UNCHANGED <<animVars, batch, panicked>>

CommitNext ==
  \E e \in Entities, n \in 0..Smaller(MaxBatch, MaxQueued - Len(log)) :
    \E anims \in [1..n -> CommitVariants] :
      Commit([entity |-> e, animations |-> anims])

CommitSpec == InitCommit /\ [][CommitNext]_vars

CommittedFor(e, t) ==
  LET Mine(x) == x.entity = e /\ x.kind = t
      mine == SelectSeq(log, Mine)
  IN [i \in DOMAIN mine |-> mine[i].anim]

\* C10: after any sequence of commits, the queue Animations<T> of an entity
\* is exactly the animations of type T committed for it, in commit order; it
\* exists exactly when one has been committed.
C10_QueuesAreCommitLog ==
  \A e \in Entities, t \in Types :
    /\ world[e][t].anims = CommittedFor(e, t)
    /\ world[e][t].present <=> Len(CommittedFor(e, t)) > 0

C10_Witness ==
  /\ Len(log) = 3
  /\ last.op = "insert_animation"
  /\ last.value = 1
  /\ world["e1"]["Position"].anims = <<to(0), by(0)>>
  /\ world["e1"]["Opacity"].anims = <<by(0)>>
  /\ log[2].kind = "Opacity"
  /\ ~world["e2"]["Position"].present


\* ------------- FrameSpec: an animation from authoring to its queue
\* impl Into<AnimationType> for Animation<T>: one impl per property type
into_variant(kind, a) ==
  CASE kind = "StrokeColor" -> Variant("StrokeColor", a)
    [] kind = "FillColor" -> Variant("FillColor", a)
    [] kind = "Position" -> Variant("Position", a)
    [] kind = "Angle" -> Variant("Angle", a)
    [] kind = "Size" -> Variant("Size", a)
    [] kind = "Opacity" -> Variant("Opacity", a)
    [] kind = "PathCompletion" -> Variant("PathCompletion", a)

\* animations in each lifecycle state, with the calls that lead there: as
\* built, resolved by init_from_target, armed by a first update
FrameStarts ==
  LET unresolved == to_target("e2")
      settled == init_from_target(unresolved, 2)
      Start(a, b, n, k, r) ==
        [anim |-> a, built |-> b, nupd |-> n, since |-> k, resolved |-> r]
  IN {Start(to(1), Built("to", 1, NoEntity), 0, 0, None),
      Start(update(to(1), 0, 1).anim, Built("to", 1, NoEntity), 1, 0, None),
      Start(by(1), Built("by", 1, NoEntity), 0, 0, None),
      Start(unresolved, Built("to_target", 0, "e2"), 0, 0, None),
      Start(settled, Built("to_target", 0, "e2"), 0, 0, Some(2)),
      Start(update(settled, 0, 1).anim, Built("to_target", 0, "e2"), 1, 1,
            Some(2))}

InitFrame ==
  /\ ptype \in Types
  /\ \E st \in FrameStarts :
       /\ anim = st.anim
       /\ built = st.built
       /\ nupd = st.nupd
       /\ since = st.since
       /\ resolved = st.resolved
  /\ property = 0
  /\ target_value = 2
  /\ peak = FALSE
  /\ set_by = [duration |-> None, start_time |-> None,
               rate_func |-> [some |-> FALSE, val |-> "Linear"]]
  /\ last = NoCall
  /\ batch = [entity |-> "e1", animations |-> <<>>]
  /\ panicked = FALSE
  /\ world = EmptyWorld
  /\ log = <<>>

Unbatched == Len(batch.animations) = 0
Batched == Len(batch.animations) > 0 /\ Len(log) = 0

\* the animation is moved into a batch for entity e1
Author ==
  /\ Unbatched
  /\ batch' = [entity |-> "e1", animations |-> <<into_variant(ptype, anim)>>]
  /\ last' = Call("into", 0, 0, 0, "Linear", NoTarget)
  /\ UNCHANGED <<animVars, panicked, world, log>>

FrameNext ==
  \/ \E d \in DurationArgs : Unbatched /\ WithDuration(d)
  \/ \E s \in StartArgs : Unbatched /\ WithStartTime(s)
  \/ \E r \in EaseTypes : Unbatched /\ WithRateFunc(r)
  \/ Unbatched /\ HasTarget
  \/ Author
  \/ \E s \in StartArgs, d \in DurationArgs, r \in EaseTypes :
       Batched /\ BatchSetProperties(s, d, r)
  \/ Batched /\ BatchStartTime
  \/ Batched /\ Commit(batch)

FrameSpec == InitFrame /\ [][FrameNext]_vars

LifecycleOps == {"update", "update_position", "init_from_target"}

SameLifecycle(a, b) == a.begin = b.begin /\ a.end = b.end

\* C15: begin and end of an animation change only in update,
\* update_position and init_from_target: the fluent setters, has_target, the
\* move into a batch, the bulk set_properties call, start_time and the commit
\* into the queue all leave begin and end of every animation as they are.
C15_OnlyLifecycleCallsChangeBeginEnd ==
  [][last'.op \notin LifecycleOps =>
       /\ SameLifecycle(anim', anim)
       /\ Len(batch.animations) > 0 =>
            /\ Len(batch'.animations) = Len(batch.animations)
            /\ \A i \in DOMAIN batch.animations :
                 SameLifecycle(batch'.animations[i].anim,
                               batch.animations[i].anim)
       /\ last'.op = "into" =>
            SameLifecycle(batch'.animations[1].anim, anim)
       /\ last'.op = "insert_animation" =>
            LET q == world'[batch.entity][batch.animations[1].kind].anims
            IN /\ Len(q) = 1
               /\ SameLifecycle(q[1], batch.animations[1].anim)]_vars

C15_Witness ==
  /\ last.op = "insert_animation"
  /\ Len(log) = 1
  /\ anim.begin.some
  /\ set_by.duration.some
  /\ SameLifecycle(log[1].anim, anim)
  /\ SameLifecycle(world["e1"][ptype].anims[1], anim)
  /\ log[1].anim.duration = set_by.duration.val
  /\ log[1].anim.start_time # DefaultStartTime
  /\ log[1].anim.init_start_time

=============================================================================
